---- MODULE Spec2Model ----
(***************************************************************************)
(* TikTok uploader: chunk planning (calc_chunk_params), session            *)
(* initiation (init_upload / init_direct_post), credential refresh         *)
(* (refresh_access_token) and the orchestrators upload_file / go_public.   *)
(*                                                                         *)
(* Sizes and byte offsets are counted in blocks of 1 KiB: the file is a    *)
(* sequence of blocks, 1024 blocks make one MiB, and the size constants of *)
(* uploader.py (all multiples of 1 KiB) are written in blocks.  This keeps *)
(* a 1001-chunk file (about 10 GiB) inside TLC's integers.                 *)
(*                                                                         *)
(* Text is a sequence of one-character strings, so that lower() and the    *)
(* substring test `in` are computed as Python computes them.  A character  *)
(* outside ASCII is written by its code point ("U+521D").                  *)
(***************************************************************************)
EXTENDS Integers, Sequences, FiniteSets, TLC

VARIABLES mode, path_is_file, file_size, env, caller_token,
          access_token, pc, chunk_size, total_chunk_count,
          publish_id, upload_url, i, fpos, fh, log, error, result,
          put_args, put_resp, put_ret, runs, env0, twin, gui

\* put_args, put_resp, put_ret: the byte range of a direct call of
\* upload_chunk, the answer to its PUT and what the call returned or raised
\* (upload_file drops that value)
\* runs, env0: several runs refreshing at the same time on one .env file
\* (each run's position in refresh_access_token, the answer to its POST, the
\* content save_env_value has read, what the refresh returned), and the
\* content of the file before any of them started
\* twin: a run of go_public next to a run of upload_file, on the same file,
\* token and answers (its own token, position, plan, session, file handle,
\* history, outcome and .env)
\* gui: the window of gui.py (the path field, the mode, the upload button,
\* the status line), the worker threads it started, the callbacks scheduled
\* on the UI thread and those the UI thread has run
harness == <<put_args, put_resp, put_ret, runs, env0, twin, gui>>

vars == <<mode, path_is_file, file_size, env, caller_token,
          access_token, pc, chunk_size, total_chunk_count,
          publish_id, upload_url, i, fpos, fh, log, error, result,
          put_args, put_resp, put_ret, runs, env0, twin, gui>>

----------------------------------------------------------------------------
(* Bounds of the model *)

\* planner inputs: -1..MaxPlanMiB MiB plus a remainder
MaxPlanMiB == 10011
\* the largest file of an orchestrator run, in MiB (plus a remainder)
MaxRunMiB == 70
\* the number of runs that refresh at the same time
NumRuns == 2
\* the number of uploads started from one window
MaxUploads == 3

----------------------------------------------------------------------------
(* Program constants, uploader.py:19-23, in blocks of 1 KiB *)

CHUNK_MIN_BYTES == 5 * 1024
CHUNK_MAX_BYTES == 64 * 1024
CHUNK_DEFAULT_BYTES == 10 * 1024
MAX_CHUNKS == 1000
\* "最終チャンクは最大128MB": the ceiling of the final chunk
FINAL_CHUNK_MAX_BYTES == 128 * 1024
INIT_API == "/v2/post/publish/inbox/video/init/"
DIRECT_POST_API == "/v2/post/publish/video/init/"
TOKEN_API == "/v2/oauth/token/"

\* blocks in one MiB
MiB == 1024

----------------------------------------------------------------------------
(* Text *)

Upper == <<"A", "B", "C", "D", "E", "F", "G", "H", "I", "J", "K", "L", "M",
           "N", "O", "P", "Q", "R", "S", "T", "U", "V", "W", "X", "Y", "Z">>
LowerOf == <<"a", "b", "c", "d", "e", "f", "g", "h", "i", "j", "k", "l", "m",
             "n", "o", "p", "q", "r", "s", "t", "u", "v", "w", "x", "y", "z">>

\* str.lower() on one character
LowerChar(c) ==
    IF \E k \in 1..26 : Upper[k] = c
    THEN LowerOf[CHOOSE k \in 1..26 : Upper[k] = c]
    ELSE c

\* str.lower()
Lower(s) == [k \in 1..Len(s) |-> LowerChar(s[k])]

\* Python's `sub in s`
Contains(s, sub) ==
    \E k \in 0..(Len(s) - Len(sub)) :
        \A j \in 1..Len(sub) : s[k + j] = sub[j]

S_access_token == <<"a", "c", "c", "e", "s", "s", "_", "t", "o", "k", "e", "n">>
S_invalid == <<"i", "n", "v", "a", "l", "i", "d">>
S_expired == <<"e", "x", "p", "i", "r", "e", "d">>
S_token == <<"t", "o", "k", "e", "n">>
S_ok == <<"o", "k">>
S_unknown == <<"u", "n", "k", "n", "o", "w", "n">>
S_dash == <<" ", "-", " ">>
S_publish_id == <<"p", "u", "b", "l", "i", "s", "h", "_", "i", "d">>
S_upload_url == <<"u", "p", "l", "o", "a", "d", "_", "u", "r", "l">>
\* "初期化失敗: "
S_init_failed == <<"U+521D", "U+671F", "U+5316", "U+5931", "U+6557", ":", " ">>
\* "レスポンスに publish_id または upload_url がありません"
S_missing_ids ==
    <<"U+30EC", "U+30B9", "U+30DD", "U+30F3", "U+30B9", "U+306B", " ">>
    \o S_publish_id
    \o <<" ", "U+307E", "U+305F", "U+306F", " ">>
    \o S_upload_url
    \o <<" ", "U+304C", "U+3042", "U+308A", "U+307E", "U+305B", "U+3093">>
\* "トークンの自動更新に失敗しました。uv run auth.py で再認証してください。"
S_refresh_failed ==
    <<"U+30C8", "U+30FC", "U+30AF", "U+30F3", "U+306E", "U+81EA", "U+52D5",
      "U+66F4", "U+65B0", "U+306B", "U+5931", "U+6557", "U+3057", "U+307E",
      "U+3057", "U+305F", "U+3002",
      "u", "v", " ", "r", "u", "n", " ", "a", "u", "t", "h", ".", "p", "y", " ",
      "U+3067", "U+518D", "U+8A8D", "U+8A3C", "U+3057", "U+3066", "U+304F",
      "U+3060", "U+3055", "U+3044", "U+3002">>

\* "アップロード失敗: HTTP "
S_upload_failed == <<"U+30A2", "U+30C3", "U+30D7", "U+30ED", "U+30FC", "U+30C9",
                     "U+5931", "U+6557", ":", " ", "H", "T", "T", "P", " ">>
S_bytes == <<"b", "y", "t", "e", "s", " ">>

DigitChars == <<"0", "1", "2", "3", "4", "5", "6", "7", "8", "9">>
IsDigit(c) == \E d \in 1..10 : DigitChars[d] = c
DigitValue(c) == (CHOOSE d \in 1..10 : DigitChars[d] = c) - 1

\* str(n) of an integer n >= 0
RECURSIVE Decimal(_)
Decimal(n) ==
    IF n < 10 THEN <<DigitChars[n + 1]>>
    ELSE Append(Decimal(n \div 10), DigitChars[(n % 10) + 1])

\* int(s) accepts a non-empty run of digits (anything else: ValueError)
IsInt(s) == Len(s) > 0 /\ \A k \in 1..Len(s) : IsDigit(s[k])
RECURSIVE IntOf(_)
IntOf(s) ==
    IF Len(s) = 0 THEN 0
    ELSE 10 * IntOf(SubSeq(s, 1, Len(s) - 1)) + DigitValue(s[Len(s)])

\* s.startswith(prefix)
StartsWith(s, prefix) ==
    Len(s) >= Len(prefix) /\ SubSeq(s, 1, Len(prefix)) = prefix

\* the position of the first ch in s, or Len(s) + 1
FirstAt(s, ch) ==
    IF \E k \in 1..Len(s) : s[k] = ch
    THEN CHOOSE k \in 1..Len(s) :
            s[k] = ch /\ \A j \in 1..(k - 1) : s[j] # ch
    ELSE Len(s) + 1

\* s.split(ch)[0] and, for an s that holds ch, s.split(ch)[1]
SplitHead(s, ch) == SubSeq(s, 1, FirstAt(s, ch) - 1)
SplitSecond(s, ch) == SplitHead(SubSeq(s, FirstAt(s, ch) + 1, Len(s)), ch)

\* error codes and messages a server response may carry
C_access_token_invalid ==
    <<"a", "c", "c", "e", "s", "s", "_", "t", "o", "k", "e", "n", "_",
      "i", "n", "v", "a", "l", "i", "d">>
C_Access_Token_Expired ==
    <<"A", "c", "c", "e", "s", "s", "_", "T", "o", "k", "e", "n", "_",
      "E", "x", "p", "i", "r", "e", "d">>
C_rate_limit_exceeded ==
    <<"r", "a", "t", "e", "_", "l", "i", "m", "i", "t", "_",
      "e", "x", "c", "e", "e", "d", "e", "d">>
C_token_revoked ==
    <<"t", "o", "k", "e", "n", "_", "r", "e", "v", "o", "k", "e", "d">>
C_internal_error ==
    <<"i", "n", "t", "e", "r", "n", "a", "l", "_", "e", "r", "r", "o", "r">>
M_too_many == <<"T", "o", "o", " ", "m", "a", "n", "y", " ",
                "r", "e", "q", "u", "e", "s", "t", "s">>
M_request_invalid == <<"R", "e", "q", "u", "e", "s", "t", " ", "i", "s", " ",
                       "i", "n", "v", "a", "l", "i", "d">>
\* texts of the exceptions requests raises
M_timed_out == <<"R", "e", "a", "d", " ", "t", "i", "m", "e", "d", " ",
                 "o", "u", "t">>
M_cert_expired == <<"c", "e", "r", "t", "i", "f", "i", "c", "a", "t", "e", " ",
                    "h", "a", "s", " ", "e", "x", "p", "i", "r", "e", "d">>
\* a body the upload URL may send with a refusal
M_token_expired == <<"a", "c", "c", "e", "s", "s", "_", "t", "o", "k", "e", "n",
                     " ", "e", "x", "p", "i", "r", "e", "d">>

----------------------------------------------------------------------------
(* ChunkPlanner *)

\* variants of calc_chunk_params with one slip each
\* `<` for `<=` in the single-chunk test
calc_chunk_params_lt(size) ==
    IF size < CHUNK_MAX_BYTES
    THEN [chunk_size |-> size, total_chunk_count |-> 1]
    ELSE [chunk_size |-> CHUNK_DEFAULT_BYTES,
          total_chunk_count |-> size \div CHUNK_DEFAULT_BYTES]
\* the single-chunk test against CHUNK_DEFAULT_BYTES
calc_chunk_params_default(size) ==
    IF size <= CHUNK_DEFAULT_BYTES
    THEN [chunk_size |-> size, total_chunk_count |-> 1]
    ELSE [chunk_size |-> CHUNK_DEFAULT_BYTES,
          total_chunk_count |-> size \div CHUNK_DEFAULT_BYTES]
\* the chunk count rounded up instead of down
calc_chunk_params_ceil(size) ==
    IF size <= CHUNK_MAX_BYTES
    THEN [chunk_size |-> size, total_chunk_count |-> 1]
    ELSE [chunk_size |-> CHUNK_DEFAULT_BYTES,
          total_chunk_count |->
              (size + CHUNK_DEFAULT_BYTES - 1) \div CHUNK_DEFAULT_BYTES]
\* the single-chunk branch taken only for a positive size
calc_chunk_params_positive(size) ==
    IF 0 < size /\ size <= CHUNK_MAX_BYTES
    THEN [chunk_size |-> size, total_chunk_count |-> 1]
    ELSE [chunk_size |-> CHUNK_DEFAULT_BYTES,
          total_chunk_count |-> size \div CHUNK_DEFAULT_BYTES]

\* calc_chunk_params(file_size) -> (chunk_size, total_chunk_count)
calc_chunk_params(size) ==
    IF size <= CHUNK_MAX_BYTES
    THEN [chunk_size |-> size, total_chunk_count |-> 1]
    ELSE [chunk_size |-> CHUNK_DEFAULT_BYTES,
          total_chunk_count |-> size \div CHUNK_DEFAULT_BYTES]

\* f.read(n) at position pos of a file of `size` blocks: the number read
ReadLen(pos, n, size) ==
    IF size - pos < n THEN (IF size - pos < 0 THEN 0 ELSE size - pos) ELSE n

\* f.read() at position pos: everything that is left
ReadAllLen(pos, size) == IF size - pos < 0 THEN 0 ELSE size - pos

\* variant: the final chunk is read with f.read(chunk_size) too
ChunkDataLen_fixed(idx, pos, csize, count, size) == ReadLen(pos, csize, size)

\* length of the data read for chunk idx when the handle stands at pos
ChunkDataLen(idx, pos, csize, count, size) ==
    IF idx = count - 1 THEN ReadAllLen(pos, size) ELSE ReadLen(pos, csize, size)

\* the length of the final chunk of a plan: the loop has read
\* count - 1 chunks of csize before it
FinalChunkLen(size, csize, count) ==
    ReadAllLen((count - 1) * csize, size)

----------------------------------------------------------------------------
(* The settings file .env: a sequence of lines KEY=value or #KEY=value *)

\* Python's None, for an opaque string value (token, id, URL)
None == "<None>"

\* `not v` for a value that is None or a string
Falsy(v) == v \in {None, ""}

EnvLine(k, v, off) == [key |-> k, value |-> v, commented |-> off]

\* dotenv_values('.env').get(key): the last uncommented line of the key
EnvGet(content, key) ==
    LET hits == {n \in 1..Len(content) :
                    content[n].key = key /\ ~content[n].commented}
    IN IF hits = {} THEN None
       ELSE content[CHOOSE n \in hits : \A m \in hits : m <= n].value

\* save_env_value(key, value) on the file's content: every line of the key,
\* commented out or not, becomes KEY=value; without one, a line is appended
save_env_value(content, key, value) ==
    IF \E n \in 1..Len(content) : content[n].key = key
    THEN [n \in 1..Len(content) |->
            IF content[n].key = key
            THEN EnvLine(key, value, FALSE)
            ELSE content[n]]
    ELSE Append(content, EnvLine(key, value, FALSE))

----------------------------------------------------------------------------
(* SessionInitiator *)

\* resp.text of an initiation response that carries no error message
ResponseText(r) ==
    IF r.has_code
    THEN <<"{", "\"", "e", "r", "r", "o", "r", "\"", ":", "{",
           "\"", "c", "o", "d", "e", "\"", ":", "\"">>
         \o r.code \o <<"\"", "}", "}">>
    ELSE <<"{", "}">>

\* the text of the RuntimeError raised for a response whose code is not "ok"
InitErrorText(r) ==
    S_init_failed
    \o (IF r.has_code THEN r.code ELSE S_unknown)
    \o S_dash
    \o (IF r.has_message THEN r.message ELSE ResponseText(r))

Returned(pid, url) ==
    [raised |-> "", text |-> <<>>, publish_id |-> pid, upload_url |-> url]
Raised(kind, txt) ==
    [raised |-> kind, text |-> txt, publish_id |-> None, upload_url |-> None]

\* variant: only a response that lacks both ids is refused
init_upload_and(r) ==
    IF r.kind = "exc" THEN Raised("RequestException", r.message)
    ELSE IF ~r.has_code \/ r.code # S_ok
    THEN Raised("RuntimeError", InitErrorText(r))
    ELSE IF Falsy(r.publish_id) /\ Falsy(r.upload_url)
    THEN Raised("RuntimeError", S_missing_ids)
    ELSE Returned(r.publish_id, r.upload_url)

\* init_upload on the response r of the POST to INIT_API
init_upload(r) ==
    IF r.kind = "exc" THEN Raised("RequestException", r.message)
    ELSE IF ~r.has_code \/ r.code # S_ok
    THEN Raised("RuntimeError", InitErrorText(r))
    ELSE IF Falsy(r.publish_id) \/ Falsy(r.upload_url)
    THEN Raised("RuntimeError", S_missing_ids)
    ELSE Returned(r.publish_id, r.upload_url)

\* init_direct_post on the response r of the POST to DIRECT_POST_API
init_direct_post(r) ==
    IF r.kind = "exc" THEN Raised("RequestException", r.message)
    ELSE IF ~r.has_code \/ r.code # S_ok
    THEN Raised("RuntimeError", InitErrorText(r))
    ELSE IF Falsy(r.publish_id) \/ Falsy(r.upload_url)
    THEN Raised("RuntimeError", S_missing_ids)
    ELSE Returned(r.publish_id, r.upload_url)

\* variant: "token" where the code tests "access_token"
LooksExpired_token(txt) ==
    \/ Contains(Lower(txt), S_token)
    \/ Contains(Lower(txt), S_invalid)
    \/ Contains(Lower(txt), S_expired)

\* the test of the except clause of upload_file / go_public on str(e)
LooksExpired(txt) ==
    \/ Contains(Lower(txt), S_access_token)
    \/ Contains(Lower(txt), S_invalid)
    \/ Contains(Lower(txt), S_expired)

----------------------------------------------------------------------------
(* Responses of the server *)

ErrorCodes == {C_access_token_invalid, C_Access_Token_Expired,
               C_rate_limit_exceeded, C_token_revoked, C_internal_error}
ErrorMessages == {<<>>, M_too_many, M_request_invalid}
PublishIds == {None, "", "pidA", "pidB"}
UploadUrls == {None, "", "urlA", "urlB"}

JsonResponse(hc, c, hm, m, pid, url) ==
    [kind |-> "json", has_code |-> hc, code |-> c, has_message |-> hm,
     message |-> m, publish_id |-> pid, upload_url |-> url]

\* a timeout, a connection failure or a body that is not JSON: requests
\* raises, and `message` holds the text of the exception
ExcResponse(txt) == [kind |-> "exc", has_code |-> FALSE, code |-> <<>>,
                     has_message |-> FALSE, message |-> txt,
                     publish_id |-> None, upload_url |-> None]

\* the answers to an initiation: no answer, a success with or without its
\* ids, refusals with and without code and message, and a refusal whose
\* body carries ids all the same
InitResponses ==
    {ExcResponse(M_timed_out), ExcResponse(M_cert_expired)}
    \cup {JsonResponse(TRUE, S_ok, FALSE, <<>>, pid, url) :
            pid \in PublishIds, url \in UploadUrls}
    \cup {JsonResponse(TRUE, c, TRUE, m, None, None) :
            c \in ErrorCodes, m \in ErrorMessages}
    \cup {JsonResponse(TRUE, c, FALSE, <<>>, None, None) : c \in ErrorCodes}
    \cup {JsonResponse(FALSE, <<>>, TRUE, m, None, None) : m \in ErrorMessages}
    \cup {JsonResponse(FALSE, <<>>, FALSE, <<>>, None, None)}
    \cup {JsonResponse(TRUE, C_access_token_invalid, FALSE, <<>>, "pidA", "urlA")}

\* the token endpoint's answers to a refresh-token grant
RefreshResponses ==
    {[kind |-> "exc", access_token |-> None, refresh_token |-> None]}
    \cup {[kind |-> "json", access_token |-> a, refresh_token |-> rt] :
            a \in {None, "", "AT0", "AT1"}, rt \in {None, "RT1"}}

\* the text of a Content-Range header
RangeText(a, b, total) ==
    S_bytes \o Decimal(a) \o <<"-">> \o Decimal(b) \o <<"/">> \o Decimal(total)
UnsatisfiedText(total) == S_bytes \o <<"*", "/">> \o Decimal(total)

\* Content-Range headers of an answer to a PUT, <<>> when the header is
\* absent: ranges of a 25 MiB file in 10 MiB chunks, a range that lacks the
\* unit, the unsatisfied-range form, and a range with no upper bound
PutHeaders ==
    {<<>>,
     RangeText(0, 10485759, 26214400),
     RangeText(0, 5242879, 26214400),
     RangeText(10485760, 20971519, 26214400),
     RangeText(20971520, 26214399, 26214400),
     SubSeq(RangeText(0, 10485759, 26214400), 7, 25),
     UnsatisfiedText(26214400),
     S_bytes \o <<"0", "-", "/">> \o Decimal(26214400)}

\* the body of an answer to a PUT
PutBodies == {<<>>, M_token_expired}

\* the upload URL's answers to a PUT: an HTTP answer, or none (timeout,
\* connection failure)
PutResponses ==
    {[kind |-> "exc", status |-> 0, body |-> <<>>, header |-> <<>>]}
    \cup {[kind |-> "http", status |-> s, body |-> b, header |-> h] :
            s \in {206, 201, 401, 500}, b \in PutBodies, h \in PutHeaders}

\* the answers a run of the orchestrator meets: it drops the value
\* upload_chunk returns, so one well-formed and one ill-formed echo stand
\* for all of them; the refusals are a bare 401 and a 500 whose body speaks
\* of an expired token
RunPutResponses ==
    {pr \in PutResponses :
        \/ pr.kind = "exc"
        \/ pr.status \in {206, 201} /\ pr.body = <<>>
            /\ pr.header \in {<<>>, RangeText(0, 10485759, 26214400),
                               S_bytes \o <<"0", "-", "/">> \o Decimal(26214400)}
        \/ pr.status = 401 /\ pr.body = <<>> /\ pr.header = <<>>
        \/ pr.status = 500 /\ pr.body = M_token_expired /\ pr.header = <<>>}

\* no answer at all: the placeholder of a call that is not made
NoPut == [kind |-> "none", status |-> 0, body |-> <<>>, header |-> <<>>]

----------------------------------------------------------------------------
(* ChunkTransmitter *)

\* what a call returns or raises
Sent(next) == [raised |-> "", text |-> <<>>, ret |-> next]
NotSent(kind, txt) == [raised |-> kind, text |-> txt, ret |-> 0]

\* resp.text[:500]
Head500(s) == SubSeq(s, 1, IF Len(s) < 500 THEN Len(s) ELSE 500)

\* variant: every HTTP answer counts as an acknowledgement
upload_chunk_nocheck(pr, first_byte, last_byte) ==
    IF pr.kind = "exc" THEN NotSent("RequestException", M_timed_out)
    ELSE Sent(last_byte + 1)

\* variant: the echoed upper bound is returned as it is
upload_chunk_echo(pr, first_byte, last_byte) ==
    IF pr.kind = "exc" THEN NotSent("RequestException", M_timed_out)
    ELSE IF pr.status \notin {206, 201}
    THEN NotSent("RuntimeError", S_upload_failed \o Decimal(pr.status)
                                 \o S_dash \o Head500(pr.body))
    ELSE LET cr == pr.header
             part == SplitHead(SubSeq(cr, 7, Len(cr)), "/")
         IN IF StartsWith(cr, S_bytes) /\ Contains(part, <<"-">>)
            THEN IF IsInt(SplitSecond(part, "-"))
                 THEN Sent(IntOf(SplitSecond(part, "-")))
                 ELSE NotSent("ValueError", <<>>)
            ELSE Sent(last_byte + 1)

\* upload_chunk(upload_url, data, first_byte, last_byte, total_size), its PUT
\* answered by pr: the next offset, taken from the echoed Content-Range when
\* it reads "bytes a-b...", else last_byte + 1
upload_chunk(pr, first_byte, last_byte) ==
    IF pr.kind = "exc" THEN NotSent("RequestException", M_timed_out)
    ELSE IF pr.status \notin {206, 201}
    THEN NotSent("RuntimeError", S_upload_failed \o Decimal(pr.status)
                                 \o S_dash \o Head500(pr.body))
    ELSE LET cr == pr.header
             part == SplitHead(SubSeq(cr, 7, Len(cr)), "/")
         IN IF StartsWith(cr, S_bytes) /\ Contains(part, <<"-">>)
            THEN IF IsInt(SplitSecond(part, "-"))
                 THEN Sent(IntOf(SplitSecond(part, "-")) + 1)
                 ELSE NotSent("ValueError", <<>>)
            ELSE Sent(last_byte + 1)

----------------------------------------------------------------------------
(* CredentialRefresher *)

\* variant: the POST is sent without looking at what .env holds
refresh_access_token_nocheck(content, rr) ==
    LET saved1 == save_env_value(content, "TIKTOK_ACCESS_TOKEN", rr.access_token)
        saved2 == IF rr.refresh_token # None
                  THEN save_env_value(saved1, "TIKTOK_REFRESH_TOKEN",
                                      rr.refresh_token)
                  ELSE saved1
    IN IF rr.kind = "exc"
       THEN [raised |-> "RequestException", ret |-> None, posted |-> TRUE,
             content |-> content]
       ELSE IF Falsy(rr.access_token)
       THEN [raised |-> "", ret |-> None, posted |-> TRUE, content |-> content]
       ELSE [raised |-> "", ret |-> rr.access_token, posted |-> TRUE,
             content |-> saved2]

\* variant: the refresh token of the answer is saved whether the answer
\* carries one or not
refresh_access_token_saveall(content, rr) ==
    LET refresh_token == EnvGet(content, "TIKTOK_REFRESH_TOKEN")
        client_key == EnvGet(content, "TIKTOK_CLIENT_KEY")
        client_secret == EnvGet(content, "TIKTOK_CLIENT_SECRET")
        saved1 == save_env_value(content, "TIKTOK_ACCESS_TOKEN", rr.access_token)
        saved2 == save_env_value(saved1, "TIKTOK_REFRESH_TOKEN",
                                 rr.refresh_token)
    IN IF Falsy(refresh_token) \/ Falsy(client_key) \/ Falsy(client_secret)
       THEN [raised |-> "", ret |-> None, posted |-> FALSE, content |-> content]
       ELSE IF rr.kind = "exc"
       THEN [raised |-> "RequestException", ret |-> None, posted |-> TRUE,
             content |-> content]
       ELSE IF Falsy(rr.access_token)
       THEN [raised |-> "", ret |-> None, posted |-> TRUE, content |-> content]
       ELSE [raised |-> "", ret |-> rr.access_token, posted |-> TRUE,
             content |-> saved2]

\* refresh_access_token() on the file content and the token endpoint's answer
\* rr: what it returns or raises, whether it sent the POST, and the content
\* of .env it leaves
refresh_access_token(content, rr) ==
    LET refresh_token == EnvGet(content, "TIKTOK_REFRESH_TOKEN")
        client_key == EnvGet(content, "TIKTOK_CLIENT_KEY")
        client_secret == EnvGet(content, "TIKTOK_CLIENT_SECRET")
        saved1 == save_env_value(content, "TIKTOK_ACCESS_TOKEN", rr.access_token)
        saved2 == IF rr.refresh_token # None
                  THEN save_env_value(saved1, "TIKTOK_REFRESH_TOKEN",
                                      rr.refresh_token)
                  ELSE saved1
    IN IF Falsy(refresh_token) \/ Falsy(client_key) \/ Falsy(client_secret)
       THEN [raised |-> "", ret |-> None, posted |-> FALSE, content |-> content]
       ELSE IF rr.kind = "exc"
       THEN [raised |-> "RequestException", ret |-> None, posted |-> TRUE,
             content |-> content]
       ELSE IF Falsy(rr.access_token)
       THEN [raised |-> "", ret |-> None, posted |-> TRUE, content |-> content]
       ELSE [raised |-> "", ret |-> rr.access_token, posted |-> TRUE,
             content |-> saved2]

----------------------------------------------------------------------------
(* UploadOrchestrator: upload_file (mode "inbox") and go_public ("direct") *)

NoError == [kind |-> "", text |-> <<>>]
Failure(kind, txt) == [kind |-> kind, text |-> txt]

\* One operation of the run, as the history `log` records it:
\*   op "init":    the endpoint, the bearer token sent, the response's code
\*                 and ids, res "ok" or the exception raised, and its text;
\*   op "refresh": a call of refresh_access_token; token is what it returned,
\*                 res is "skipped" (None, no POST sent), "none" (None after
\*                 the POST), "ok" or the exception raised; refresh_token is
\*                 the refresh token the answer to the POST carried, if any;
\*   op "put":     the destination URL, chunk index idx, the byte range
\*                 first..last, res "ok" or the exception raised; refused is
\*                 the HTTP status of an answer that is neither 206 nor 201
\*                 (0 when the answer was one of them, or never came).
\* post_info tells whether the request body carried the post metadata.
LogEntry(op, ep, tok, res, txt, hc, c, pid, url, idx, a, b, st, rt, meta) ==
    [op |-> op, endpoint |-> ep, token |-> tok, res |-> res, text |-> txt,
     has_code |-> hc, code |-> c, publish_id |-> pid, upload_url |-> url,
     idx |-> idx, first |-> a, last |-> b, refused |-> st,
     refresh_token |-> rt, post_info |-> meta]

\* the initiation call and the endpoint of each orchestrator
InitiateFor(m, r) == IF m = "direct" THEN init_direct_post(r) ELSE init_upload(r)
EndpointFor(m) == IF m = "direct" THEN DIRECT_POST_API ELSE INIT_API

InitLog(r, o) ==
    LogEntry("init", EndpointFor(mode), access_token,
             IF o.raised = "" THEN "ok" ELSE o.raised, o.text,
             r.has_code, r.code, r.publish_id, r.upload_url, 0, 0, 0, 0, None,
             mode = "direct")

RefreshLog(rr, o) ==
    LogEntry("refresh", TOKEN_API, o.ret,
             IF o.raised # "" THEN o.raised
             ELSE IF o.ret # None THEN "ok"
             ELSE IF o.posted THEN "none" ELSE "skipped",
             <<>>, FALSE, <<>>, None, None, 0, 0, 0, 0,
             IF o.posted /\ rr.kind = "json" THEN rr.refresh_token ELSE None,
             FALSE)

PutLog(idx, first, last, pr, o) ==
    LogEntry("put", upload_url, None,
             IF o.raised = "" THEN "ok" ELSE o.raised, o.text,
             FALSE, <<>>, None, upload_url, idx, first, last,
             IF pr.kind = "http" /\ pr.status \notin {206, 201}
             THEN pr.status ELSE 0,
             None, FALSE)

\* variant: a file of size 0 passes the size check
EmptyFile_negative(size) == size < 0

\* `if file_size <= 0`
EmptyFile(size) == size <= 0

\* variant: `except Exception`
Caught_any(kind) == TRUE

\* `except RuntimeError as e`: the exceptions the clause catches
Caught(kind) == kind = "RuntimeError"

\* `if new_token:` of the except clause
Adoptable(new_token) == ~Falsy(new_token)

\* variant: the second initiation keeps the token of the first
AdoptedToken_keep(old_token, new_token) == old_token

\* `access_token = new_token`: the token of the second initiation
AdoptedToken(old_token, new_token) == new_token

\* variant: the file is opened without a with block and never closed
ClosedOnExit_leak(h) == h

\* leaving the with block, by return or by exception, closes the file
ClosedOnExit(h) == "closed"

\* variant: the loop skips every other chunk
NextIndex_skip(idx) == idx + 2

\* `for i in range(total_chunk_count)`: the index after idx
NextIndex(idx) == idx + 1

\* variant: the loop stops one chunk early
InLoop_short(idx, count) == idx < count - 1

\* `for i in range(total_chunk_count)`: the loop body runs for idx
InLoop(idx, count) == idx < count

\* path check, size check and planning
ValidateRun ==
    /\ pc = "start"
    /\ IF ~path_is_file
       THEN /\ pc' = "failed"
            /\ error' = Failure("FileNotFoundError", <<>>)
            /\ UNCHANGED <<chunk_size, total_chunk_count>>
       ELSE IF EmptyFile(file_size)
       THEN /\ pc' = "failed"
            /\ error' = Failure("ValueError", <<>>)
            /\ UNCHANGED <<chunk_size, total_chunk_count>>
       ELSE /\ pc' = "init"
            /\ chunk_size' = calc_chunk_params(file_size).chunk_size
            /\ total_chunk_count' = calc_chunk_params(file_size).total_chunk_count
            /\ UNCHANGED error
    /\ UNCHANGED <<mode, path_is_file, file_size, env, caller_token,
                   access_token, publish_id, upload_url, i, fpos, fh, log,
                   result>>

\* the first initiation, inside the try, answered by r: a RuntimeError whose
\* text looks like an expired token leads to the refresh, any other error
\* propagates
InitiateWith(r) ==
    /\ pc = "init"
    /\ LET o == InitiateFor(mode, r) IN
        /\ log' = Append(log, InitLog(r, o))
        /\ IF o.raised = ""
           THEN /\ publish_id' = o.publish_id
                /\ upload_url' = o.upload_url
                /\ pc' = "open"
                /\ UNCHANGED error
           ELSE IF Caught(o.raised) /\ LooksExpired(o.text)
           THEN /\ pc' = "refresh"
                /\ UNCHANGED <<publish_id, upload_url, error>>
           ELSE /\ pc' = "failed"
                /\ error' = Failure(o.raised, o.text)
                /\ UNCHANGED <<publish_id, upload_url>>
    /\ UNCHANGED <<mode, path_is_file, file_size, env, caller_token,
                   access_token, chunk_size, total_chunk_count, i, fpos, fh,
                   result>>

\* the except clause: refresh_access_token(), whose POST is answered by rr,
\* then adopt the token or give up
RefreshWith(rr) ==
    /\ pc = "refresh"
    /\ LET o == refresh_access_token(env, rr) IN
        /\ env' = o.content
        /\ log' = Append(log, RefreshLog(rr, o))
        /\ IF o.raised # ""
           THEN /\ pc' = "failed"
                /\ error' = Failure(o.raised, <<>>)
                /\ UNCHANGED access_token
           ELSE IF Adoptable(o.ret)
           THEN /\ pc' = "retry_init"
                /\ access_token' = AdoptedToken(access_token, o.ret)
                /\ UNCHANGED error
           ELSE /\ pc' = "failed"
                /\ error' = Failure("RuntimeError", S_refresh_failed)
                /\ UNCHANGED access_token
    /\ UNCHANGED <<mode, path_is_file, file_size, caller_token, chunk_size,
                   total_chunk_count, publish_id, upload_url, i, fpos, fh,
                   result>>

\* the second initiation, inside the except clause: every error propagates
RetryInitiateWith(r) ==
    /\ pc = "retry_init"
    /\ LET o == InitiateFor(mode, r) IN
        /\ log' = Append(log, InitLog(r, o))
        /\ IF o.raised = ""
           THEN /\ publish_id' = o.publish_id
                /\ upload_url' = o.upload_url
                /\ pc' = "open"
                /\ UNCHANGED error
           ELSE /\ pc' = "failed"
                /\ error' = Failure(o.raised, o.text)
                /\ UNCHANGED <<publish_id, upload_url>>
    /\ UNCHANGED <<mode, path_is_file, file_size, env, caller_token,
                   access_token, chunk_size, total_chunk_count, i, fpos, fh,
                   result>>

\* with open(path, "rb") as f: the file opens, or open raises OSError
OpenFileWith(opened) ==
    /\ pc = "open"
    /\ IF opened
       THEN /\ fh' = "open"
            /\ fpos' = 0
            /\ i' = 0
            /\ pc' = "loop"
            /\ UNCHANGED error
       ELSE /\ pc' = "failed"
            /\ error' = Failure("OSError", <<>>)
            /\ UNCHANGED <<fh, fpos, i>>
    /\ UNCHANGED <<mode, path_is_file, file_size, env, caller_token,
                   access_token, chunk_size, total_chunk_count, publish_id,
                   upload_url, log, result>>

\* one pass of the loop body: read chunk i (the read may raise OSError), PUT
\* it and drop what upload_chunk returns; an exception of the read or of
\* upload_chunk leaves the with block, which closes the file
SendChunkWith(pr, readable) ==
    /\ pc = "loop"
    /\ InLoop(i, total_chunk_count)
    /\ LET start == i * chunk_size
           len == ChunkDataLen(i, fpos, chunk_size, total_chunk_count, file_size)
           end == start + len - 1
           o == upload_chunk(pr, start, end)
       IN
       IF ~readable
       THEN /\ pc' = "failed"
            /\ fh' = ClosedOnExit(fh)
            /\ error' = Failure("OSError", <<>>)
            /\ UNCHANGED <<log, fpos, i>>
       ELSE /\ log' = Append(log, PutLog(i, start, end, pr, o))
            /\ fpos' = fpos + len
            /\ IF o.raised = ""
               THEN /\ i' = NextIndex(i)
                    /\ UNCHANGED <<pc, fh, error>>
               ELSE /\ pc' = "failed"
                    /\ fh' = ClosedOnExit(fh)
                    /\ error' = Failure(o.raised, o.text)
                    /\ UNCHANGED i
    /\ UNCHANGED <<mode, path_is_file, file_size, env, caller_token,
                   access_token, chunk_size, total_chunk_count, publish_id,
                   upload_url, result>>

\* the loop is over: the with block closes the file, publish_id is returned
FinishRun ==
    /\ pc = "loop"
    /\ ~InLoop(i, total_chunk_count)
    /\ fh' = ClosedOnExit(fh)
    /\ pc' = "done"
    /\ result' = publish_id
    /\ UNCHANGED <<mode, path_is_file, file_size, env, caller_token,
                   access_token, chunk_size, total_chunk_count, publish_id,
                   upload_url, i, fpos, log, error>>

\* the steps of one run, with every answer the outside may give
Validate == ValidateRun /\ UNCHANGED harness
Initiate == \E r \in InitResponses : InitiateWith(r) /\ UNCHANGED harness
Refresh == \E rr \in RefreshResponses : RefreshWith(rr) /\ UNCHANGED harness
RetryInitiate ==
    \E r \in InitResponses : RetryInitiateWith(r) /\ UNCHANGED harness
OpenFile == \E opened \in BOOLEAN : OpenFileWith(opened) /\ UNCHANGED harness
SendChunk ==
    \/ \E pr \in RunPutResponses :
          SendChunkWith(pr, TRUE) /\ UNCHANGED harness
    \/ SendChunkWith(NoPut, FALSE) /\ UNCHANGED harness
Finish == FinishRun /\ UNCHANGED harness

----------------------------------------------------------------------------
(* The runs of the orchestrator *)

RunSizes == {0, 1, CHUNK_MAX_BYTES, CHUNK_MAX_BYTES + 1,
             MaxRunMiB * MiB, MaxRunMiB * MiB + 1023}

Opt(b, line) == IF b THEN <<line>> ELSE <<>>

EnvConfigs ==
    {Opt(ck, EnvLine("TIKTOK_CLIENT_KEY", "CK", FALSE))
     \o <<EnvLine("TIKTOK_CLIENT_SECRET", cs, FALSE)>>
     \o <<EnvLine("TIKTOK_ACCESS_TOKEN", "AT0", FALSE)>>
     \o Opt(rf # "absent",
            EnvLine("TIKTOK_REFRESH_TOKEN", "RT0", rf = "commented")) :
        ck \in BOOLEAN, cs \in {"CS", ""}, rf \in {"set", "commented", "absent"}}

\* no direct call of upload_chunk is under way
PutArgs(first, last, total) ==
    [first_byte |-> first, last_byte |-> last, total_size |-> total]
PutIdle ==
    /\ put_args = PutArgs(0, 0, 0)
    /\ put_resp = NoPut
    /\ put_ret = Sent(0)

\* no concurrent refresh is under way
ConcIdle ==
    /\ runs = <<>>
    /\ env0 = <<>>

\* no run of go_public goes along
NoTwin == [pc |-> "none"]
TwinIdle == twin = NoTwin

\* no window is open
NoGui == [button |-> "none"]
GuiIdle == gui = NoGui

HarnessIdle ==
    /\ PutIdle
    /\ ConcIdle
    /\ TwinIdle
    /\ GuiIdle

RunIdle ==
    /\ caller_token = "AT0"
    /\ access_token = caller_token
    /\ chunk_size = 0
    /\ total_chunk_count = 0
    /\ publish_id = None
    /\ upload_url = None
    /\ i = 0
    /\ fpos = 0
    /\ fh = "unopened"
    /\ log = <<>>
    /\ error = NoError
    /\ result = None

Idle ==
    /\ HarnessIdle
    /\ RunIdle

Init ==
    /\ mode \in {"inbox", "direct"}
    /\ path_is_file \in BOOLEAN
    /\ file_size \in (IF path_is_file THEN RunSizes ELSE {0})
    /\ env \in EnvConfigs
    /\ pc = "start"
    /\ Idle

Next ==
    \/ Validate
    \/ Initiate
    \/ Refresh
    \/ RetryInitiate
    \/ OpenFile
    \/ SendChunk
    \/ Finish

Spec == Init /\ [][Next]_vars

----------------------------------------------------------------------------
(* The planner on its own: calc_chunk_params called with any size *)

PlanSizes == {k * MiB + r : k \in (-1)..MaxPlanMiB, r \in {0, 1, 1023}}

PlanInit ==
    /\ mode = "inbox"
    /\ path_is_file = TRUE
    /\ file_size \in PlanSizes
    /\ env = <<>>
    /\ pc = "plan_call"
    /\ Idle

PlanCall ==
    /\ pc = "plan_call"
    /\ pc' = "plan_ret"
    /\ chunk_size' = calc_chunk_params(file_size).chunk_size
    /\ total_chunk_count' = calc_chunk_params(file_size).total_chunk_count
    /\ UNCHANGED <<mode, path_is_file, file_size, env, caller_token,
                   access_token, publish_id, upload_url, i, fpos, fh, log,
                   error, result>>
    /\ UNCHANGED harness

PlanNext == PlanCall

PlanSpec == PlanInit /\ [][PlanNext]_vars

----------------------------------------------------------------------------
(* The transmitter on its own: upload_chunk called on one chunk of a 25 MiB *)
(* file sent in chunks of 10 MiB, offsets in bytes                          *)

ChunkRanges ==
    {PutArgs(0, 10485759, 26214400),
     PutArgs(10485760, 20971519, 26214400),
     PutArgs(20971520, 26214399, 26214400)}

ChunkInit ==
    /\ mode = "inbox"
    /\ path_is_file = TRUE
    /\ file_size = 0
    /\ env = <<>>
    /\ pc = "put_call"
    /\ RunIdle
    /\ ConcIdle
    /\ TwinIdle
    /\ GuiIdle
    /\ put_args \in ChunkRanges
    /\ put_resp \in PutResponses
    /\ put_ret = Sent(0)

ChunkCall ==
    /\ pc = "put_call"
    /\ pc' = "put_ret"
    /\ put_ret' = upload_chunk(put_resp, put_args.first_byte, put_args.last_byte)
    /\ UNCHANGED <<mode, path_is_file, file_size, env, caller_token,
                   access_token, chunk_size, total_chunk_count, publish_id,
                   upload_url, i, fpos, fh, log, error, result, put_args,
                   put_resp, runs, env0, twin, gui>>

ChunkNext == ChunkCall

ChunkSpec == ChunkInit /\ [][ChunkNext]_vars

----------------------------------------------------------------------------
(* Runs that refresh at the same time.  Each run is a thread or a process *)
(* of its own; what they share is the file .env, which                     *)
(* refresh_access_token reads once and save_env_value reads and rewrites   *)
(* whole, with no lock, once per key saved.                                *)

RunIds == 1..NumRuns

\* the tokens the token endpoint hands to each run
AccessOf == <<"ATa", "ATb", "ATc">>
RefreshOf == <<"RTa", "RTb", "RTc">>

\* the token endpoint's answers to the POST of run r
ConcResponses(r) ==
    {[kind |-> "exc", access_token |-> None, refresh_token |-> None]}
    \cup {[kind |-> "json", access_token |-> a, refresh_token |-> rt] :
            a \in {None, AccessOf[r]}, rt \in {None, RefreshOf[r]}}

\* .env files with client key and secret, with or without a refresh token
ConcEnvs ==
    {c \in EnvConfigs : /\ ~Falsy(EnvGet(c, "TIKTOK_CLIENT_KEY"))
                        /\ ~Falsy(EnvGet(c, "TIKTOK_CLIENT_SECRET"))}

\* a run about to call refresh_access_token
RunStart ==
    [pc |-> "read_env",
     resp |-> [kind |-> "exc", access_token |-> None, refresh_token |-> None],
     buf |-> <<>>, ret |-> None, raised |-> ""]

ConcInit ==
    /\ mode = "inbox"
    /\ path_is_file = TRUE
    /\ file_size = 0
    /\ env \in ConcEnvs
    /\ env0 = env
    /\ pc = "conc"
    /\ RunIdle
    /\ PutIdle
    /\ TwinIdle
    /\ GuiIdle
    /\ runs = [r \in RunIds |-> RunStart]

ConcFrame ==
    UNCHANGED <<mode, path_is_file, file_size, caller_token, access_token, pc,
                chunk_size, total_chunk_count, publish_id, upload_url, i,
                fpos, fh, log, error, result, put_args, put_resp, put_ret,
                env0, twin, gui>>

\* dotenv_values('.env') and the test of the three settings
ConcReadEnv(r) ==
    /\ runs[r].pc = "read_env"
    /\ runs' = [runs EXCEPT ![r].pc =
                  IF \/ Falsy(EnvGet(env, "TIKTOK_REFRESH_TOKEN"))
                     \/ Falsy(EnvGet(env, "TIKTOK_CLIENT_KEY"))
                     \/ Falsy(EnvGet(env, "TIKTOK_CLIENT_SECRET"))
                  THEN "done" ELSE "post"]
    /\ UNCHANGED env
    /\ ConcFrame

\* the POST to the token endpoint and the test of its access_token
ConcPost(r) ==
    /\ runs[r].pc = "post"
    /\ \E rr \in ConcResponses(r) :
        runs' = [runs EXCEPT
                   ![r].resp = rr,
                   ![r].raised = IF rr.kind = "exc" THEN "RequestException"
                                 ELSE "",
                   ![r].pc = IF rr.kind = "exc" \/ Falsy(rr.access_token)
                             THEN "done" ELSE "save_access_read"]
    /\ UNCHANGED env
    /\ ConcFrame

\* save_env_value reads the whole file
ConcSaveRead(r) ==
    /\ runs[r].pc \in {"save_access_read", "save_refresh_read"}
    /\ runs' = [runs EXCEPT
                  ![r].buf = env,
                  ![r].pc = IF runs[r].pc = "save_access_read"
                            THEN "save_access_write"
                            ELSE "save_refresh_write"]
    /\ UNCHANGED env
    /\ ConcFrame

\* save_env_value writes the file back from what it read; after the access
\* token the refresh token is saved if the answer carries one, and
\* refresh_access_token returns the new access token
ConcSaveWrite(r) ==
    /\ runs[r].pc \in {"save_access_write", "save_refresh_write"}
    /\ LET rr == runs[r].resp
           more == runs[r].pc = "save_access_write" /\ rr.refresh_token # None
       IN
       /\ env' = IF runs[r].pc = "save_access_write"
                 THEN save_env_value(runs[r].buf, "TIKTOK_ACCESS_TOKEN",
                                     rr.access_token)
                 ELSE save_env_value(runs[r].buf, "TIKTOK_REFRESH_TOKEN",
                                     rr.refresh_token)
       /\ runs' = [runs EXCEPT
                     ![r].pc = IF more THEN "save_refresh_read" ELSE "done",
                     ![r].ret = IF more THEN None ELSE rr.access_token]
    /\ ConcFrame

ConcNext ==
    \E r \in RunIds :
        \/ ConcReadEnv(r)
        \/ ConcPost(r)
        \/ ConcSaveRead(r)
        \/ ConcSaveWrite(r)

ConcSpec == ConcInit /\ [][ConcNext]_vars

----------------------------------------------------------------------------
(* go_public next to upload_file.  The run of upload_file is the one of    *)
(* the variables; the run of go_public is the record `twin`, and each step *)
(* of go_public is a function of that record, written from go_public's own *)
(* text.  The two runs get the same file, the same token, equal .env files *)
(* and, step by step, the same answers.                                    *)

\* go_public about to start
TwinStart(content) ==
    [pc |-> "start", access_token |-> caller_token, env |-> content,
     chunk_size |-> 0, total_chunk_count |-> 0, publish_id |-> None,
     upload_url |-> None, i |-> 0, fpos |-> 0, fh |-> "unopened",
     log |-> <<>>, error |-> NoError, result |-> None]

\* go_public: path check, size check and planning
gp_validate(t) ==
    IF t.pc # "start" THEN t
    ELSE IF ~path_is_file
    THEN [t EXCEPT !.pc = "failed",
                   !.error = Failure("FileNotFoundError", <<>>)]
    ELSE IF file_size <= 0
    THEN [t EXCEPT !.pc = "failed", !.error = Failure("ValueError", <<>>)]
    ELSE [t EXCEPT !.pc = "init",
                   !.chunk_size = calc_chunk_params(file_size).chunk_size,
                   !.total_chunk_count =
                       calc_chunk_params(file_size).total_chunk_count]

\* an initiation of go_public in the history of the twin
gp_init_log(t, r, o) ==
    LogEntry("init", DIRECT_POST_API, t.access_token,
             IF o.raised = "" THEN "ok" ELSE o.raised, o.text,
             r.has_code, r.code, r.publish_id, r.upload_url, 0, 0, 0, 0, None,
             TRUE)

\* go_public: init_direct_post inside the try
gp_initiate(t, r) ==
    IF t.pc # "init" THEN t
    ELSE LET o == init_direct_post(r)
             logged == [t EXCEPT !.log = Append(t.log, gp_init_log(t, r, o))]
         IN IF o.raised = ""
            THEN [logged EXCEPT !.publish_id = o.publish_id,
                                !.upload_url = o.upload_url,
                                !.pc = "open"]
            ELSE IF /\ o.raised = "RuntimeError"
                    /\ \/ Contains(Lower(o.text), S_access_token)
                       \/ Contains(Lower(o.text), S_invalid)
                       \/ Contains(Lower(o.text), S_expired)
            THEN [logged EXCEPT !.pc = "refresh"]
            ELSE [logged EXCEPT !.pc = "failed",
                                !.error = Failure(o.raised, o.text)]

\* go_public: the except clause up to the second initiation
gp_refresh(t, rr) ==
    IF t.pc # "refresh" THEN t
    ELSE LET o == refresh_access_token(t.env, rr)
             logged == [t EXCEPT !.env = o.content,
                                 !.log = Append(t.log, RefreshLog(rr, o))]
         IN IF o.raised # ""
            THEN [logged EXCEPT !.pc = "failed",
                                !.error = Failure(o.raised, <<>>)]
            ELSE IF ~Falsy(o.ret)
            THEN [logged EXCEPT !.pc = "retry_init", !.access_token = o.ret]
            ELSE [logged EXCEPT !.pc = "failed",
                                !.error = Failure("RuntimeError",
                                                  S_refresh_failed)]

\* go_public: init_direct_post inside the except clause
gp_retry(t, r) ==
    IF t.pc # "retry_init" THEN t
    ELSE LET o == init_direct_post(r)
             logged == [t EXCEPT !.log = Append(t.log, gp_init_log(t, r, o))]
         IN IF o.raised = ""
            THEN [logged EXCEPT !.publish_id = o.publish_id,
                                !.upload_url = o.upload_url,
                                !.pc = "open"]
            ELSE [logged EXCEPT !.pc = "failed",
                                !.error = Failure(o.raised, o.text)]

\* go_public: with open(path, "rb") as f
gp_open(t, opened) ==
    IF t.pc # "open" THEN t
    ELSE IF opened
    THEN [t EXCEPT !.fh = "open", !.fpos = 0, !.i = 0, !.pc = "loop"]
    ELSE [t EXCEPT !.pc = "failed", !.error = Failure("OSError", <<>>)]

\* variant: every chunk, the last one too, is read with f.read(chunk_size)
gp_chunk_len_fixed(t) == ReadLen(t.fpos, t.chunk_size, file_size)

\* go_public: len(chunk_data), f.read() for the last chunk and
\* f.read(chunk_size) for the others
gp_chunk_len(t) ==
    IF t.i = t.total_chunk_count - 1
    THEN ReadAllLen(t.fpos, file_size)
    ELSE ReadLen(t.fpos, t.chunk_size, file_size)

\* go_public: one pass of the loop body
gp_send(t, pr, readable) ==
    IF t.pc # "loop" \/ ~(t.i < t.total_chunk_count) THEN t
    ELSE LET start == t.i * t.chunk_size
             len == gp_chunk_len(t)
             end == start + len - 1
             o == upload_chunk(pr, start, end)
             entry == LogEntry("put", t.upload_url, None,
                               IF o.raised = "" THEN "ok" ELSE o.raised,
                               o.text, FALSE, <<>>, None, t.upload_url,
                               t.i, start, end,
                               IF pr.kind = "http" /\ pr.status \notin {206, 201}
                               THEN pr.status ELSE 0,
                               None, FALSE)
         IN IF ~readable
            THEN [t EXCEPT !.pc = "failed", !.fh = "closed",
                           !.error = Failure("OSError", <<>>)]
            ELSE IF o.raised = ""
            THEN [t EXCEPT !.log = Append(t.log, entry),
                           !.fpos = t.fpos + len, !.i = t.i + 1]
            ELSE [t EXCEPT !.log = Append(t.log, entry),
                           !.fpos = t.fpos + len, !.pc = "failed",
                           !.fh = "closed",
                           !.error = Failure(o.raised, o.text)]

\* go_public: the loop is over, the file is closed, publish_id is returned
gp_finish(t) ==
    IF t.pc # "loop" \/ t.i < t.total_chunk_count THEN t
    ELSE [t EXCEPT !.fh = "closed", !.pc = "done", !.result = t.publish_id]

EquivInit ==
    /\ mode = "inbox"
    /\ path_is_file \in BOOLEAN
    /\ file_size \in (IF path_is_file THEN RunSizes ELSE {0})
    /\ env \in EnvConfigs
    /\ pc = "start"
    /\ RunIdle
    /\ PutIdle
    /\ ConcIdle
    /\ GuiIdle
    /\ twin = TwinStart(env)

EquivFrame == UNCHANGED <<put_args, put_resp, put_ret, runs, env0, gui>>

\* the two runs step together, on the same answer
EquivValidate == ValidateRun /\ twin' = gp_validate(twin) /\ EquivFrame
EquivInitiate ==
    \E r \in InitResponses :
        InitiateWith(r) /\ twin' = gp_initiate(twin, r) /\ EquivFrame
EquivRefresh ==
    \E rr \in RefreshResponses :
        RefreshWith(rr) /\ twin' = gp_refresh(twin, rr) /\ EquivFrame
EquivRetryInitiate ==
    \E r \in InitResponses :
        RetryInitiateWith(r) /\ twin' = gp_retry(twin, r) /\ EquivFrame
EquivOpenFile ==
    \E opened \in BOOLEAN :
        OpenFileWith(opened) /\ twin' = gp_open(twin, opened) /\ EquivFrame
EquivSendChunk ==
    \/ \E pr \in RunPutResponses :
          SendChunkWith(pr, TRUE) /\ twin' = gp_send(twin, pr, TRUE)
          /\ EquivFrame
    \/ SendChunkWith(NoPut, FALSE) /\ twin' = gp_send(twin, NoPut, FALSE)
       /\ EquivFrame
EquivFinish == FinishRun /\ twin' = gp_finish(twin) /\ EquivFrame

EquivNext ==
    \/ EquivValidate
    \/ EquivInitiate
    \/ EquivRefresh
    \/ EquivRetryInitiate
    \/ EquivOpenFile
    \/ EquivSendChunk
    \/ EquivFinish

EquivSpec == EquivInit /\ [][EquivNext]_vars

----------------------------------------------------------------------------
(* The window of gui.py.  The UI thread runs the handlers of the widgets  *)
(* and the callbacks scheduled with after(); each click that passes the   *)
(* path test starts a worker thread running _do_upload.  A worker calls   *)
(* upload_file(path) or go_public(path): one argument, where both take    *)
(* (access_token, path).  Python refuses the call with TypeError before   *)
(* the orchestrator starts, so a worker of this window always ends in its *)
(* except clause.                                                         *)

\* def upload_file(access_token, path) / def go_public(access_token, path)
ORCHESTRATOR_PARAMS == 2
\* upload_file(path) / go_public(path)
GUI_CALL_ARGS == 1

\* what the path field may hold
GuiPaths ==
    {<<>>, <<" ">>, <<"a", ".", "m", "p", "4">>,
     <<" ", "a", ".", "m", "p", "4", " ">>}

\* str.strip() on a text whose only white space is the blank
Strip(s) ==
    LET inked == {k \in 1..Len(s) : s[k] # " "} IN
    IF inked = {} THEN <<>>
    ELSE SubSeq(s, CHOOSE k \in inked : \A j \in inked : k <= j,
                   CHOOSE k \in inked : \A j \in inked : j <= k)

\* what a run of the orchestrator on the path would return or raise
RunOutcomes ==
    {[raised |-> "", ret |-> "pidA"],
     [raised |-> "RuntimeError", ret |-> None],
     [raised |-> "FileNotFoundError", ret |-> None]}

\* a call of an orchestrator with `given` positional arguments: the run's
\* outcome when the arguments fit the parameters, TypeError when they do not
orchestrator_call(given, out) ==
    IF given # ORCHESTRATOR_PARAMS
    THEN [raised |-> "TypeError", ret |-> None]
    ELSE out

\* variant: the click leaves the button as it is
ButtonAfterClick_normal(b) == b

\* self.btn_upload.config(state="disabled")
ButtonAfterClick(b) == "disabled"

\* the window after App.__init__
GuiStart ==
    [path |-> <<>>, mode |-> "inbox", button |-> "normal",
     status |-> "select", dialog |-> "none", workers |-> <<>>,
     queue |-> <<>>, handled |-> <<>>]

GuiInit ==
    /\ mode = "inbox"
    /\ path_is_file = TRUE
    /\ file_size = 0
    /\ env = <<>>
    /\ pc = "gui"
    /\ RunIdle
    /\ PutIdle
    /\ ConcIdle
    /\ TwinIdle
    /\ gui = GuiStart

GuiFrame ==
    UNCHANGED <<mode, path_is_file, file_size, env, caller_token, access_token,
                pc, chunk_size, total_chunk_count, publish_id, upload_url, i,
                fpos, fh, log, error, result, put_args, put_resp, put_ret,
                runs, env0, twin>>

\* the user edits the path field
GuiType ==
    /\ \E p \in GuiPaths : gui' = [gui EXCEPT !.path = p]
    /\ GuiFrame

\* _browse: a file chosen in the dialog goes to the path field
GuiBrowse ==
    /\ \E p \in GuiPaths :
        gui' = IF p # <<>>
               THEN [gui EXCEPT !.path = p, !.status = "ready"]
               ELSE gui
    /\ GuiFrame

\* the user picks a radio button
GuiSelectMode ==
    /\ \E m \in {"inbox", "direct"} : gui' = [gui EXCEPT !.mode = m]
    /\ GuiFrame

\* _on_upload, the command of the upload button; Tk runs the command of a
\* button only while its state is normal
GuiClick ==
    /\ gui.button = "normal"
    /\ Len(gui.workers) < MaxUploads
    /\ gui' = IF Strip(gui.path) = <<>>
              THEN [gui EXCEPT !.dialog = "warning"]
              ELSE [gui EXCEPT
                      !.button = ButtonAfterClick(gui.button),
                      !.status = "uploading",
                      !.workers = Append(gui.workers,
                                         [state |-> "running",
                                          path |-> Strip(gui.path)])]
    /\ GuiFrame

\* _do_upload in worker w: the call of the orchestrator the mode names, then
\* after(0, ...) with _on_success or, from the except clause, _on_error; the
\* call of after is the last statement of the thread
GuiDoUpload(w) ==
    /\ gui.workers[w].state = "running"
    /\ \E out \in RunOutcomes :
        LET target == IF gui.mode = "direct" THEN "go_public"
                      ELSE "upload_file"
            o == orchestrator_call(GUI_CALL_ARGS, out)
            callback == IF o.raised = ""
                        THEN [handler |-> "_on_success", arg |-> o.ret,
                              worker |-> w]
                        ELSE [handler |-> "_on_error", arg |-> o.raised,
                              worker |-> w]
        IN gui' = [gui EXCEPT
                     !.workers[w] = [state |-> "ended", path |-> @.path,
                                     target |-> target],
                     !.queue = Append(gui.queue, callback)]
    /\ GuiFrame

\* the UI thread runs the next scheduled callback, _on_success or _on_error
GuiRunCallback ==
    /\ gui.queue # <<>>
    /\ LET cb == Head(gui.queue) IN
       gui' = [gui EXCEPT
                 !.queue = Tail(gui.queue),
                 !.handled = Append(gui.handled, cb),
                 !.button = "normal",
                 !.status = IF cb.handler = "_on_success" THEN "done"
                            ELSE "error",
                 !.dialog = IF cb.handler = "_on_success" THEN "info"
                            ELSE "error"]
    /\ GuiFrame

\* a worker thread runs
GuiWorker == \E w \in 1..Len(gui.workers) : GuiDoUpload(w)

GuiNext ==
    \/ GuiType
    \/ GuiBrowse
    \/ GuiSelectMode
    \/ GuiClick
    \/ GuiWorker
    \/ GuiRunCallback

GuiSpec == GuiInit /\ [][GuiNext]_vars

----------------------------------------------------------------------------
(* Properties of the planner, under PlanSpec *)

PlanReturned == pc = "plan_ret"

\* C1: for every size with 0 < size <= 64 MiB the planner returns
\* chunkCount = 1 and chunkSize = size.
C1_SingleChunkUpTo64MiB ==
    (PlanReturned /\ 0 < file_size /\ file_size <= 64 * MiB)
        => (total_chunk_count = 1 /\ chunk_size = file_size)

\* the planner has returned one chunk for a file of exactly 64 MiB
C1_Witness ==
    /\ PlanReturned
    /\ file_size = 64 * MiB
    /\ total_chunk_count = 1
    /\ chunk_size = 64 * MiB

\* C3 as stated: 25 MiB is planned as chunkSize 10 MiB, chunkCount 2, with a
\* final chunk of 5 MiB.
C3_Original ==
    (PlanReturned /\ file_size = 25 * MiB)
        => /\ chunk_size = 10 * MiB
           /\ total_chunk_count = 2
           /\ FinalChunkLen(file_size, chunk_size, total_chunk_count) = 5 * MiB

\* C3 amended: 25 MiB is not above 64 MiB, so it is planned as one chunk:
\* chunkSize 25 MiB, chunkCount 1, and the final (only) chunk is 25 MiB.
C3_25MiBIsOneChunk ==
    (PlanReturned /\ file_size = 25 * MiB)
        => /\ chunk_size = 25 * MiB
           /\ total_chunk_count = 1
           /\ FinalChunkLen(file_size, chunk_size, total_chunk_count) = 25 * MiB

C3_Witness == PlanReturned /\ file_size = 25 * MiB /\ total_chunk_count = 1

\* C4 as stated: every plan for a positive size has chunkCount <= 1000 and a
\* final chunk (chunkSize plus the absorbed remainder) of at most 128 MiB.
C4_Original ==
    (PlanReturned /\ file_size > 0)
        => /\ total_chunk_count <= MAX_CHUNKS
           /\ FinalChunkLen(file_size, chunk_size, total_chunk_count)
                <= FINAL_CHUNK_MAX_BYTES

\* C5 as stated: chunkSize * (chunkCount-1) < size <= chunkSize * chunkCount
\* when chunkCount > 1, and chunkSize = size when chunkCount = 1.
C5_Original ==
    PlanReturned
        => /\ total_chunk_count > 1
                => /\ chunk_size * (total_chunk_count - 1) < file_size
                   /\ file_size <= chunk_size * total_chunk_count
           /\ total_chunk_count = 1 => chunk_size = file_size

\* C5 amended: the count is rounded down, so when chunkCount > 1
\* chunkSize * chunkCount <= size < chunkSize * (chunkCount+1);
\* when chunkCount = 1, chunkSize = size.
C5_FloorPlanInvariant ==
    PlanReturned
        => /\ total_chunk_count > 1
                => /\ chunk_size * total_chunk_count <= file_size
                   /\ file_size < chunk_size * (total_chunk_count + 1)
           /\ total_chunk_count = 1 => chunk_size = file_size

\* a plan of several chunks whose size is no multiple of the chunk size
C5_Witness ==
    /\ PlanReturned
    /\ total_chunk_count > 1
    /\ chunk_size * total_chunk_count < file_size

----------------------------------------------------------------------------
(* Properties of a run of the orchestrator, under Spec *)

Inits == {n \in 1..Len(log) : log[n].op = "init"}
Refreshes == {n \in 1..Len(log) : log[n].op = "refresh"}
Puts == {n \in 1..Len(log) : log[n].op = "put"}

\* the exception text holds one of the three words the except clause looks for
TextLooksExpired(txt) ==
    LET low == SubSeq(Lower(txt), 1, Len(txt)) IN
    \/ Contains(low, S_access_token)
    \/ Contains(low, S_invalid)
    \/ Contains(low, S_expired)

\* the first initiation failed with a RuntimeError taken for an expired token
FirstInitAuthExpired ==
    /\ Len(log) >= 1
    /\ log[1].op = "init"
    /\ log[1].res = "RuntimeError"
    /\ TextLooksExpired(log[1].text)

\* C2: for every size above 64 MiB the plan has chunkCount = floor(size /
\* 10 MiB); the ranges sent so far start at 0, are non-empty and follow each
\* other without gap or overlap, and once every chunk is acknowledged there
\* are chunkCount of them and the last one ends at size - 1.
C2_RangesCoverFile ==
    (file_size > 64 * MiB /\ pc \notin {"start", "plan_call"})
        => /\ total_chunk_count = file_size \div (10 * MiB)
           /\ \A n \in Puts :
                /\ log[n].first <= log[n].last
                /\ log[n].first =
                     IF n - 1 \in Puts THEN log[n - 1].last + 1 ELSE 0
           /\ pc = "done"
                => /\ Cardinality(Puts) = total_chunk_count
                   /\ log[Len(log)].op = "put"
                   /\ log[Len(log)].last = file_size - 1

\* a finished run on a file above 64 MiB that is no multiple of 10 MiB
C2_Witness ==
    /\ pc = "done"
    /\ file_size > 64 * MiB
    /\ file_size % (10 * MiB) # 0
    /\ Cardinality(Puts) >= 6

\* C7: at most two initiations and one refresh per run; a second initiation
\* is the third operation, after a first initiation taken for AuthExpired and
\* a refresh that returned a token, and it carries that token; when it fails
\* the run has failed and nothing follows it.
C7_OneRefreshOneRetry ==
    /\ Cardinality(Inits) <= 2
    /\ Cardinality(Refreshes) <= 1
    /\ \A n \in Inits :
        n > 1 => /\ n = 3
                 /\ FirstInitAuthExpired
                 /\ log[2].op = "refresh"
                 /\ log[2].res = "ok"
                 /\ log[2].token # None
                 /\ log[3].token = log[2].token
                 /\ log[3].res # "ok"
                        => /\ pc = "failed"
                           /\ Len(log) = 3
                           /\ error.kind = log[3].res

\* the retried initiation, sent with the new token AT1, was refused as
\* expired again and the run has failed
C7_Witness ==
    /\ Len(log) = 3
    /\ log[3].op = "init"
    /\ log[3].token = "AT1"
    /\ log[3].res = "RuntimeError"
    /\ TextLooksExpired(log[3].text)
    /\ pc = "failed"

\* .env lacks a refresh token, a client key or a client secret
EnvIncomplete ==
    \/ Falsy(EnvGet(env, "TIKTOK_REFRESH_TOKEN"))
    \/ Falsy(EnvGet(env, "TIKTOK_CLIENT_KEY"))
    \/ Falsy(EnvGet(env, "TIKTOK_CLIENT_SECRET"))

\* C8: after a first initiation taken for AuthExpired, when .env is
\* incomplete or the refresh returned None, the run has failed with the
\* RuntimeError "トークンの自動更新に失敗しました...", and the refresh is the last
\* operation: no second initiation, no chunk.
C8_RefreshNoneIsFatal ==
    (/\ FirstInitAuthExpired
     /\ Len(log) >= 2
     /\ log[2].op = "refresh"
     /\ (EnvIncomplete \/ log[2].res \in {"skipped", "none"}))
        => /\ pc = "failed"
           /\ error = Failure("RuntimeError", S_refresh_failed)
           /\ Len(log) = 2
           /\ access_token = caller_token

\* the token endpoint answered without an access_token
C8_Witness ==
    /\ FirstInitAuthExpired
    /\ Len(log) = 2
    /\ log[2].op = "refresh"
    /\ log[2].res = "none"
    /\ pc = "failed"

\* the code of the first initiation's response, as the error text prints it
FirstCode == IF log[1].has_code THEN log[1].code ELSE S_unknown

\* the first initiation was answered with a code other than "ok"
FirstInitRefused ==
    /\ Len(log) >= 1
    /\ log[1].op = "init"
    /\ log[1].res = "RuntimeError"
    /\ ~(log[1].has_code /\ log[1].code = S_ok)

\* the run went on to the refresh after the first initiation
WentToRefresh == pc = "refresh" \/ Len(log) >= 2

\* C9 as stated: a refused initiation leads to the refresh exactly when its
\* code contains "token", "invalid" or "expired" (case-insensitively).
C9_Original ==
    FirstInitRefused
        => (WentToRefresh <=>
                \/ Contains(Lower(FirstCode), S_token)
                \/ Contains(Lower(FirstCode), S_invalid)
                \/ Contains(Lower(FirstCode), S_expired))

\* C9 amended: a refused initiation leads to the refresh exactly when the
\* text of the error, "初期化失敗: <code> - <message>", contains "access_token",
\* "invalid" or "expired" (case-insensitively), in the code or in the
\* message; otherwise the run has failed with that error and the initiation
\* is its only operation.
C9_ExpiredByErrorText ==
    FirstInitRefused
        => /\ SubSeq(log[1].text, 1, Len(S_init_failed) + Len(FirstCode))
                = S_init_failed \o FirstCode
           /\ WentToRefresh <=> TextLooksExpired(log[1].text)
           /\ ~WentToRefresh
                => /\ pc = "failed"
                   /\ error = Failure("RuntimeError", log[1].text)

\* a code with "token" but not "access_token" in it, and a message without
\* any of the words: no refresh
C9_Witness ==
    /\ FirstInitRefused
    /\ log[1].code = C_token_revoked
    /\ ~TextLooksExpired(log[1].text)
    /\ pc = "failed"
    /\ Len(log) = 1

\* C10: an initiation answered "ok" without publish_id or without upload_url
\* fails the run with a RuntimeError that is not taken for an expired token:
\* it is the last operation (no refresh after it, no retry, no chunk).
C10_PartialSuccessIsFatal ==
    \A n \in Inits :
        (/\ log[n].has_code
         /\ log[n].code = S_ok
         /\ (Falsy(log[n].publish_id) \/ Falsy(log[n].upload_url)))
            => /\ log[n].res = "RuntimeError"
               /\ pc = "failed"
               /\ error = Failure("RuntimeError", S_missing_ids)
               /\ ~TextLooksExpired(error.text)
               /\ Len(log) = n
               /\ fh = "unopened"

\* a first initiation answered "ok" with a publish_id but no upload_url
C10_Witness ==
    /\ Len(log) = 1
    /\ log[1].op = "init"
    /\ log[1].code = S_ok
    /\ log[1].publish_id = "pidA"
    /\ log[1].upload_url = None
    /\ pc = "failed"

\* C11: a chunk whose PUT is answered by a status other than 206 / 201
\* (whatever the body says) ends the run in failure: the refused PUT is the
\* last operation of the run, so the chunk is not sent again, no later chunk
\* is sent, no refresh is attempted and no session is initiated after it.
C11_RefusedChunkEndsRun ==
    \A n \in Puts :
        log[n].refused # 0 =>
            /\ pc = "failed"
            /\ n = Len(log)
            /\ log[n].res = "RuntimeError"
            /\ error.kind = "RuntimeError"
            /\ \A m \in Puts : m # n => log[m].idx < log[n].idx
            /\ Cardinality(Refreshes) <= 1
            /\ \A m \in Inits \cup Refreshes : m < n

\* a chunk after the first is refused with 500 and a body that speaks of an
\* expired access token
C11_Witness ==
    /\ Len(log) >= 2
    /\ log[Len(log)].op = "put"
    /\ log[Len(log)].refused = 500
    /\ log[Len(log)].idx >= 1
    /\ TextLooksExpired(log[Len(log)].text)
    /\ pc = "failed"

\* C13: when the path is not a file, or the file is empty, the run fails in
\* its validation, with FileNotFoundError or ValueError, and no network
\* operation is ever issued: no initiation, no refresh, no PUT (nor is the
\* file opened).
C13_InvalidInputNoNetwork ==
    (pc # "start" /\ (~path_is_file \/ file_size = 0)) =>
        /\ pc = "failed"
        /\ error.kind = (IF ~path_is_file THEN "FileNotFoundError"
                         ELSE "ValueError")
        /\ log = <<>>
        /\ fh = "unopened"
        /\ result = None

\* an empty file was refused
C13_Witness ==
    /\ path_is_file
    /\ file_size = 0
    /\ pc = "failed"
    /\ error.kind = "ValueError"
    /\ log = <<>>

\* the PUTs issued before entry n of the history
PutsBefore(n) == {m \in Puts : m < n}

\* the n-th PUT carries chunk n - 1, every PUT before it was acknowledged,
\* and an initiation before it returned a session id and a destination URL
ChunksInOrder ==
    \A n \in Puts :
        /\ log[n].idx = Cardinality(PutsBefore(n))
        /\ log[n].idx < total_chunk_count
        /\ \A m \in PutsBefore(n) : log[m].res = "ok" /\ log[m].refused = 0
        /\ \E m \in Inits :
            /\ m < n
            /\ log[m].res = "ok"
            /\ ~Falsy(log[m].publish_id)
            /\ ~Falsy(log[m].upload_url)

\* C15: chunks are sent in ascending order 0, 1, ..., chunkCount - 1, chunk
\* i + 1 only after chunk i was acknowledged with 206 / 201 and none before
\* an initiation returned both a session id and a destination URL; the calls
\* block, so a step of the run issues and completes at most one network
\* operation and no two are ever in flight.
C15_ChunksInOrderOneAtATime ==
    /\ []ChunksInOrder
    /\ [][/\ Len(log') <= Len(log) + 1
          /\ SubSeq(log', 1, Len(log)) = log]_vars

\* a run of three chunks or more is over, all of them acknowledged
C15_Witness ==
    /\ pc = "done"
    /\ total_chunk_count >= 3
    /\ Cardinality(Puts) = total_chunk_count
    /\ log[Len(log)].idx = total_chunk_count - 1

\* C16: an initiation or a refresh that ends in an exception of the HTTP
\* library (timeout, connection failure, a body that does not parse) is the
\* last operation of the run, which fails with that exception: no refresh,
\* no second initiation and no PUT follows.  A refresh is only ever called
\* right after a first initiation that failed with a RuntimeError taken for
\* an expired token.
C16_NetworkErrorIsFatal ==
    /\ \A n \in Inits \cup Refreshes :
        log[n].res = "RequestException" =>
            /\ n = Len(log)
            /\ pc = "failed"
            /\ error.kind = "RequestException"
            /\ Puts = {}
            /\ log[n].op = "init" => error.text = log[n].text
    /\ \A n \in Refreshes : n = 2 /\ FirstInitAuthExpired
    /\ pc = "refresh" => Len(log) = 1 /\ FirstInitAuthExpired

\* the first initiation ended in an exception whose text speaks of an
\* expired certificate, and the run stopped there
C16_Witness ==
    /\ Len(log) = 1
    /\ log[1].op = "init"
    /\ log[1].res = "RequestException"
    /\ TextLooksExpired(log[1].text)
    /\ pc = "failed"

\* C17: the file is opened at most once in a run (an open handle can only
\* become closed, a closed one stays closed), and no run ends with the
\* handle open: it is closed after the last chunk is acknowledged, after a
\* refused or failed PUT and after an exception of the read.
C17_FileClosedOnEveryExit ==
    /\ [](pc \in {"done", "failed"} => fh # "open")
    /\ [](fh = "open" => pc = "loop")
    /\ [][/\ fh = "open" => fh' \in {"open", "closed"}
          /\ fh = "closed" => fh' = "closed"]_vars

\* the read of a chunk after the first raised, and the file is closed
C17_Witness ==
    /\ pc = "failed"
    /\ error.kind = "OSError"
    /\ fh = "closed"
    /\ Puts # {}

\* the last entry of the history after a step that called the refresher
Refreshed == Len(log') = Len(log) + 1 /\ log'[Len(log')].op = "refresh"

\* C18: the stored credentials change only in a step whose refresh obtained
\* a new access token; a refresh that returns None or raises leaves the file
\* as it was; a refresh that obtained a token stores it as the access token,
\* stores the refresh token of the answer when the answer carries one and
\* otherwise leaves the stored refresh token alone, and leaves client key and
\* secret alone; the token the caller passed in is never changed.
C18_StoreWrittenOnlyByRefresh ==
    [][/\ caller_token' = caller_token
       /\ env' # env => Refreshed /\ log'[Len(log')].res = "ok"
       /\ (Refreshed /\ log'[Len(log')].res # "ok") => env' = env
       /\ (Refreshed /\ log'[Len(log')].res = "ok") =>
            LET e == log'[Len(log')] IN
            /\ ~Falsy(e.token)
            /\ EnvGet(env', "TIKTOK_ACCESS_TOKEN") = e.token
            /\ EnvGet(env', "TIKTOK_REFRESH_TOKEN") =
                 (IF e.refresh_token # None THEN e.refresh_token
                  ELSE EnvGet(env, "TIKTOK_REFRESH_TOKEN"))
            /\ EnvGet(env', "TIKTOK_CLIENT_KEY") = EnvGet(env, "TIKTOK_CLIENT_KEY")
            /\ EnvGet(env', "TIKTOK_CLIENT_SECRET") =
                 EnvGet(env, "TIKTOK_CLIENT_SECRET")
            /\ Len(env') = Len(env)]_vars

\* a refresh obtained a new access token and no refresh token: the store
\* holds the new access token and the old refresh token, the caller's token
\* is the old one
C18_Witness ==
    /\ Len(log) >= 2
    /\ log[2].op = "refresh"
    /\ log[2].res = "ok"
    /\ log[2].token = "AT1"
    /\ log[2].refresh_token = None
    /\ EnvGet(env, "TIKTOK_ACCESS_TOKEN") = "AT1"
    /\ EnvGet(env, "TIKTOK_REFRESH_TOKEN") = "RT0"
    /\ caller_token = "AT0"

\* the last initiation of the run
LastInit == CHOOSE m \in Inits : \A k \in Inits : k <= m

\* C19: a run returns a session id only when it is done, and then exactly
\* chunkCount PUTs were issued and acknowledged, all after the last
\* initiation and all to its destination URL, that initiation succeeded and
\* the id returned is its session id.
C19_ReturnsLastSession ==
    /\ result # None => pc = "done"
    /\ pc = "done" =>
        /\ Inits # {}
        /\ log[LastInit].res = "ok"
        /\ result = log[LastInit].publish_id
        /\ ~Falsy(result)
        /\ Cardinality(Puts) = total_chunk_count
        /\ \A n \in Puts :
            /\ n > LastInit
            /\ log[n].res = "ok"
            /\ log[n].refused = 0
            /\ log[n].endpoint = log[LastInit].upload_url
        /\ \A m \in Inits : m # LastInit => log[m].res # "ok"

\* a run is done after a refresh and a second initiation: the first answer
\* carried id pidA and one URL, the second id pidB and another URL
C19_Witness ==
    /\ pc = "done"
    /\ Cardinality(Inits) = 2
    /\ log[1].publish_id = "pidA"
    /\ log[1].upload_url # log[LastInit].upload_url
    /\ ~Falsy(log[1].upload_url)
    /\ result = "pidB"
    /\ total_chunk_count >= 2

----------------------------------------------------------------------------
(* Properties of the transmitter, under ChunkSpec *)

\* the byte offsets a Content-Range of PutHeaders may name
EchoOffsets == {0, 5242879, 10485759, 10485760, 20971519, 20971520, 26214399}

\* "bytes 0-10485759/26214400"
ExampleEcho ==
    <<"b", "y", "t", "e", "s", " ", "0", "-", "1", "0", "4", "8", "5", "7",
      "5", "9", "/", "2", "6", "2", "1", "4", "4", "0", "0">>

\* C12: a call of upload_chunk answered by 206 or 201 returns b + 1 when the
\* answer has a Content-Range header "bytes a-b/total", whatever range was
\* sent, and last_byte + 1 when the answer has no Content-Range header; the
\* header bytes 0-10485759/26214400 gives 10485760.
C12_EchoedUpperBoundPlusOne ==
    (pc = "put_ret" /\ put_resp.kind = "http" /\ put_resp.status \in {206, 201}) =>
        /\ \A a, b \in EchoOffsets :
            put_resp.header = RangeText(a, b, put_args.total_size) =>
                put_ret = Sent(b + 1)
        /\ put_resp.header = ExampleEcho => put_ret = Sent(10485760)
        /\ put_resp.header = <<>> => put_ret = Sent(put_args.last_byte + 1)
        /\ (put_ret.raised = "" /\ put_ret.ret # put_args.last_byte + 1) =>
            \E a, b \in EchoOffsets :
                put_resp.header = RangeText(a, b, put_args.total_size)

\* the second chunk was sent and the answer, a 206, echoes the range of the
\* first: the call returns the offset after the echoed range
C12_Witness ==
    /\ pc = "put_ret"
    /\ put_resp.kind = "http"
    /\ put_resp.status = 206
    /\ put_resp.header = ExampleEcho
    /\ put_args.last_byte = 20971519
    /\ put_ret = Sent(10485760)

----------------------------------------------------------------------------
(* Properties of runs that refresh at the same time, under ConcSpec *)

\* the orders in which the runs may happen one after another
SerialOrders ==
    {o \in [RunIds -> RunIds] : \A a, b \in RunIds : o[a] = o[b] => a = b}

\* the content of .env before the k-th run of order o, when each run gets
\* the answer it got and the runs happen one after another
RECURSIVE SerialBefore(_, _)
SerialBefore(o, k) ==
    IF k = 1 THEN env0
    ELSE refresh_access_token(SerialBefore(o, k - 1),
                              runs[o[k - 1]].resp).content

AllDone == \A r \in RunIds : runs[r].pc = "done"

\* C14: when every run is over, what each refresh returned or raised and the
\* content of .env are those of some execution in which the runs, with the
\* same answers, happen one after another.
C14_Original ==
    AllDone =>
        \E o \in SerialOrders :
            /\ env = SerialBefore(o, NumRuns + 1)
            /\ \A k \in RunIds :
                LET s == refresh_access_token(SerialBefore(o, k),
                                              runs[o[k]].resp)
                IN /\ runs[o[k]].ret = s.ret
                   /\ runs[o[k]].raised = s.raised

----------------------------------------------------------------------------
(* Properties of go_public next to upload_file, under EquivSpec *)

\* an entry of the history without what tells the two orchestrators apart
Common(e) == [e EXCEPT !.endpoint = IF e.op = "init" THEN "init" ELSE @,
                       !.post_info = FALSE]

\* C20: on the same file, token and answers, upload_file and go_public are
\* at the same step with the same plan, token, session, file position and
\* handle, stored credentials, error and result, and have issued the same
\* operations with the same byte ranges; the histories differ only in the
\* initiations, which upload_file sends to the inbox endpoint without post
\* metadata and go_public to the direct-post endpoint with it.
C20_SameStateMachine ==
    /\ twin.pc = pc
    /\ twin.access_token = access_token
    /\ twin.env = env
    /\ twin.chunk_size = chunk_size
    /\ twin.total_chunk_count = total_chunk_count
    /\ twin.publish_id = publish_id
    /\ twin.upload_url = upload_url
    /\ twin.i = i
    /\ twin.fpos = fpos
    /\ twin.fh = fh
    /\ twin.error = error
    /\ twin.result = result
    /\ Len(twin.log) = Len(log)
    /\ \A n \in 1..Len(log) :
        /\ Common(twin.log[n]) = Common(log[n])
        /\ log[n].op = "init" =>
            /\ log[n].endpoint = INIT_API
            /\ ~log[n].post_info
            /\ twin.log[n].endpoint = DIRECT_POST_API
            /\ twin.log[n].post_info
        /\ log[n].op # "init" => twin.log[n] = log[n]

\* both runs are done after a refresh, a second initiation and three chunks
\* or more
C20_Witness ==
    /\ pc = "done"
    /\ twin.pc = "done"
    /\ Cardinality(Refreshes) = 1
    /\ Cardinality(Puts) >= 3
    /\ twin.result = result
    /\ twin.log[1].endpoint = DIRECT_POST_API
    /\ log[1].endpoint = INIT_API

----------------------------------------------------------------------------
(* Properties of the window, under GuiSpec *)

Workers == 1..Len(gui.workers)
Running == {w \in Workers : gui.workers[w].state = "running"}

\* the callbacks scheduled for worker w, run by the UI thread or not yet
ScheduledFor(w) ==
    Cardinality({n \in 1..Len(gui.queue) : gui.queue[n].worker = w})
    + Cardinality({n \in 1..Len(gui.handled) : gui.handled[n].worker = w})

\* C21: while a worker thread started by _on_upload runs, the upload button
\* is disabled, so at most one worker runs at any time; a worker that has
\* ended, with a publish id or with an exception, has exactly one callback
\* scheduled on the UI thread, _on_success or _on_error, a running one has
\* none; and the button is enabled again exactly when that callback has run.
C21_OneWorkerOneCallback ==
    /\ Cardinality(Running) <= 1
    /\ Running # {} => gui.button = "disabled"
    /\ \A w \in Workers :
        ScheduledFor(w) = (IF w \in Running THEN 0 ELSE 1)
    /\ \A n \in 1..Len(gui.queue) :
        gui.queue[n].handler \in {"_on_success", "_on_error"}
    /\ Len(gui.queue) <= 1
    /\ gui.button = "normal" <=> (Running = {} /\ gui.queue = <<>>)

\* a first worker ended with an exception, _on_error ran and enabled the
\* button, and a second click has started a second worker
C21_Witness ==
    /\ Len(gui.workers) = 2
    /\ gui.workers[1].state = "ended"
    /\ Len(gui.handled) = 1
    /\ gui.handled[1].handler = "_on_error"
    /\ gui.handled[1].worker = 1
    /\ Running = {2}
    /\ gui.button = "disabled"

====
